---- MODULE Spec2Model ----
(***************************************************************************)
(* The Cursed Forest (src/game.py): a Streamlit script.  Every user        *)
(* interaction with a widget reruns main() from the top against the        *)
(* session state kept by the framework.  The model has one action per      *)
(* widget the user can operate; each action is one complete run of main(). *)
(*                                                                         *)
(* Strings the code searches (the story response, the trigger phrases) are *)
(* sequences of one-character strings, so that lower() and the substring   *)
(* test `in` are computed rather than assumed.                             *)
(***************************************************************************)
EXTENDS Integers, Sequences, FiniteSets, TLC

VARIABLES
  session_state,  \* st.session_state: a dict, modelled as a function on its keys
  last_run        \* the widget that triggered the last run of main() and the
                  \* place where that run stopped (which decides the widgets
                  \* left on screen for the next interaction)

vars == <<session_state, last_run>>

----------------------------------------------------------------------------
(* Bounds of the model *)

\* turns explored per game (choices_made is unbounded in the code)
MaxChoices == 10
\* food explored (food is unbounded in the code)
MaxFood == 8

\* random.random() returns a float in [0, 1); the model draws it in hundredths
RandomDraws == {0, 30, 60, 90}

----------------------------------------------------------------------------
(* Strings *)


\* trigger phrase, game.py line 139: "move closer to success"
PhraseSuccess ==
  <<"m","o","v","e"," ","c","l","o","s","e","r"," ","t","o"," ","s","u","c",
    "c","e","s","s">>

\* trigger phrase, game.py line 141: "restore health"
PhraseRestore ==
  <<"r","e","s","t","o","r","e"," ","h","e","a","l","t","h">>

\* trigger phrase, game.py line 150: "lose health"
PhraseLose ==
  <<"l","o","s","e"," ","h","e","a","l","t","h">>

\* trigger phrase, game.py line 152: "fatal event"
PhraseFatal ==
  <<"f","a","t","a","l"," ","e","v","e","n","t">>


\* Story texts the generative model may answer with (response.text, line 100)

\* no trigger phrase: "nothing happens"
TextPlain ==
  <<"n","o","t","h","i","n","g"," ","h","a","p","p","e","n","s">>

\* success phrase in mixed case: "You Move Closer To Success"
TextSuccess ==
  <<"Y","o","u"," ","M","o","v","e"," ","C","l","o","s","e","r"," ","T","o",
    " ","S","u","c","c","e","s","s">>

\* healing phrase: "you restore health here"
TextRestore ==
  <<"y","o","u"," ","r","e","s","t","o","r","e"," ","h","e","a","l","t","h",
    " ","h","e","r","e">>

\* damage phrase in mixed case: "You LOSE health"
TextLose ==
  <<"Y","o","u"," ","L","O","S","E"," ","h","e","a","l","t","h">>

\* fatal phrase in mixed case: "a Fatal Event"
TextFatal ==
  <<"a"," ","F","a","t","a","l"," ","E","v","e","n","t">>

\* both good-branch phrases: "restore health, move closer to success"
TextSuccessRestore ==
  <<"r","e","s","t","o","r","e"," ","h","e","a","l","t","h",","," ","m","o",
    "v","e"," ","c","l","o","s","e","r"," ","t","o"," ","s","u","c","c","e",
    "s","s">>

\* both bad-branch phrases: "fatal event: lose health"
TextLoseFatal ==
  <<"f","a","t","a","l"," ","e","v","e","n","t",":"," ","l","o","s","e"," ",
    "h","e","a","l","t","h">>

\* the text returned when generation raises: "Something went wrong in the forest... Please try again."
FallbackText ==
  <<"S","o","m","e","t","h","i","n","g"," ","w","e","n","t"," ","w","r","o",
    "n","g"," ","i","n"," ","t","h","e"," ","f","o","r","e","s","t",".",".",
    "."," ","P","l","e","a","s","e"," ","t","r","y"," ","a","g","a","i","n",
    ".">>

\* the model's answers: response.text of a successful send_message
ModelTexts ==
  {TextPlain, TextSuccess, TextRestore, TextLose, TextFatal,
   TextSuccessRestore, TextLoseFatal}

\* generate_story_response returns the model's text, or the fallback text
\* when anything in the try block raises
generate_story_response == ModelTexts \cup {FallbackText}

TriggerPhrases == {PhraseSuccess, PhraseRestore, PhraseLose, PhraseFatal}

UpperCase ==
  <<"A","B","C","D","E","F","G","H","I","J","K","L","M",
    "N","O","P","Q","R","S","T","U","V","W","X","Y","Z">>

LowerCase ==
  <<"a","b","c","d","e","f","g","h","i","j","k","l","m",
    "n","o","p","q","r","s","t","u","v","w","x","y","z">>

\* str.lower() on one character
char_lower(c) ==
  IF \E i \in 1..Len(UpperCase) : UpperCase[i] = c
  THEN LowerCase[CHOOSE i \in 1..Len(UpperCase) : UpperCase[i] = c]
  ELSE c

\* str.lower()
str_lower(s) == [i \in 1..Len(s) |-> char_lower(s[i])]

\* the substring test `sub in s`
str_contains(sub, s) ==
  \E i \in 0..(Len(s) - Len(sub)) : SubSeq(s, i + 1, i + Len(sub)) = sub

\* the phrase test without lower(): a capitalised phrase is missed
phrase_in_response_case_sensitive(phrase, response_text) ==
  str_contains(phrase, response_text)

\* `"<phrase>" in response_text.lower()`
phrase_in_response(phrase, response_text) ==
  str_contains(phrase, str_lower(response_text))

\* phrase_in_response tabulated over the texts and phrases of the model
ResponseMatches ==
  [t \in generate_story_response |->
     [p \in TriggerPhrases |-> phrase_in_response(p, t)]]

----------------------------------------------------------------------------
(* Session state *)

None == "None"

Min(a, b) == IF a < b THEN a ELSE b

\* st.session_state after clear(): no keys
EmptySession == [k \in {} |-> None]

\* the dict literal of lines 39-46
NewGameState ==
  [health |-> 100, food |-> 5, choices_made |-> 0, success |-> FALSE,
   mode |-> None, ended |-> FALSE]

\* set a key of the session dict, creating it when absent
SetKey(ss, key, value) ==
  [k \in DOMAIN ss \cup {key} |-> IF k = key THEN value ELSE ss[k]]

initialize_session_state(ss) ==
  LET s1 == IF "conversation_history" \in DOMAIN ss THEN ss
            ELSE SetKey(ss, "conversation_history", <<>>)
      s2 == IF "messages" \in DOMAIN s1 THEN s1
            ELSE SetKey(s1, "messages", <<>>)
      s3 == IF "game_state" \in DOMAIN s2 THEN s2
            ELSE SetKey(s2, "game_state", NewGameState)
  IN IF "language" \in DOMAIN s3 THEN s3
     ELSE SetKey(s3, "language", "English")

----------------------------------------------------------------------------
(* update_game_state, lines 105-162 *)

\* the healing per food unit without the Nightmare case
food_restore_health_all_modes(mode) == 10

\* lines 107-110
food_restore_health(mode) == IF mode = "Nightmare" THEN 0 ELSE 10

\* the food step without the food > 0 test: food is always decremented
consume_food_unguarded(gs) ==
  LET new_health == Min(100, gs.health + food_restore_health(gs.mode))
  IN [gs EXCEPT !.food = @ - 1,
                !.health = IF new_health > @ THEN new_health ELSE @]

\* lines 112-121: consume food with each choice, or starve
consume_food(gs) ==
  IF gs.food > 0
  THEN LET new_health == Min(100, gs.health + food_restore_health(gs.mode))
       IN [gs EXCEPT !.food = @ - 1,
                     !.health = IF new_health > @ THEN new_health ELSE @]
  ELSE [gs EXCEPT !.health = @ - 10]

\* weight of 'good' in random.choices, in hundredths (lines 124-135)
good_weight(mode) ==
  CASE mode = "Easy" -> 70
    [] mode = "Hard" -> 50
    [] mode = "Nightmare" -> 30
    [] OTHER -> 100

\* random.choices(['good', 'bad'], weights)[0] for the draw u
draw_outcome(mode, u) == IF u < good_weight(mode) THEN "good" ELSE "bad"

\* food_chance in hundredths (lines 124-135)
food_chance(mode) ==
  CASE mode = "Easy" -> 80
    [] mode = "Hard" -> 40
    [] mode = "Nightmare" -> 20
    [] OTHER -> 0

\* the good branch with the healing not capped at 100
good_outcome_unclamped(gs, response_text, r) ==
  LET m == ResponseMatches[response_text]
      g1 == IF m[PhraseSuccess] THEN [gs EXCEPT !.success = TRUE]
            ELSE IF gs.mode = "Easy" /\ m[PhraseRestore]
                 THEN [gs EXCEPT !.health = @ + 20]
                 ELSE gs
  IN IF r < food_chance(gs.mode) THEN [g1 EXCEPT !.food = @ + 3] ELSE g1

\* the good branch with two independent tests in place of if/elif
good_outcome_both_rules(gs, response_text, r) ==
  LET m == ResponseMatches[response_text]
      g1 == IF m[PhraseSuccess] THEN [gs EXCEPT !.success = TRUE] ELSE gs
      g2 == IF gs.mode = "Easy" /\ m[PhraseRestore]
            THEN [g1 EXCEPT !.health = Min(100, @ + 20)]
            ELSE g1
  IN IF r < food_chance(gs.mode) THEN [g2 EXCEPT !.food = @ + 3] ELSE g2

\* lines 138-147
good_outcome(gs, response_text, r) ==
  LET m == ResponseMatches[response_text]
      g1 == IF m[PhraseSuccess] THEN [gs EXCEPT !.success = TRUE]
            ELSE IF gs.mode = "Easy" /\ m[PhraseRestore]
                 THEN [gs EXCEPT !.health = Min(100, @ + 20)]
                 ELSE gs
  IN IF r < food_chance(gs.mode) THEN [g1 EXCEPT !.food = @ + 3] ELSE g1

\* the bad branch taking the health loss without looking at the text
bad_outcome_always_lose(gs, response_text) == [gs EXCEPT !.health = @ - 10]

\* lines 149-153
bad_outcome(gs, response_text) ==
  LET m == ResponseMatches[response_text]
  IN IF m[PhraseLose] THEN [gs EXCEPT !.health = @ - 10]
     ELSE IF m[PhraseFatal] /\ gs.health <= 10 THEN [gs EXCEPT !.health = 0]
     ELSE gs

\* the end check with health < 0 in place of health <= 0
check_game_end_strict(gs) ==
  IF gs.success THEN [gs EXCEPT !.ended = TRUE]
  ELSE IF gs.health < 0 THEN [gs EXCEPT !.ended = TRUE]
  ELSE gs

\* lines 155-159
check_game_end(gs) ==
  IF gs.success THEN [gs EXCEPT !.ended = TRUE]
  ELSE IF gs.health <= 0 THEN [gs EXCEPT !.ended = TRUE]
  ELSE gs

\* the food-discovery draw made after either outcome, not only the good one
update_game_state_food_any_outcome(gs, response_text, u, r) ==
  LET g1 == consume_food(gs)
      outcome == draw_outcome(g1.mode, u)
      g2 == IF outcome = "good" THEN good_outcome(g1, response_text, r)
            ELSE LET b == bad_outcome(g1, response_text)
                 IN IF r < food_chance(b.mode) THEN [b EXCEPT !.food = @ + 3]
                    ELSE b
      g3 == check_game_end(g2)
  IN [g3 EXCEPT !.choices_made = @ + 1]

\* the outcome rules applied before the food step
update_game_state_outcome_first(gs, response_text, u, r) ==
  LET outcome == draw_outcome(gs.mode, u)
      g1 == IF outcome = "good" THEN good_outcome(gs, response_text, r)
            ELSE bad_outcome(gs, response_text)
      g2 == consume_food(g1)
      g3 == check_game_end(g2)
  IN [g3 EXCEPT !.choices_made = @ + 1]

\* the turn counter incremented only while the game goes on
update_game_state_skip_terminal(gs, response_text, u, r) ==
  LET g1 == consume_food(gs)
      outcome == draw_outcome(g1.mode, u)
      g2 == IF outcome = "good" THEN good_outcome(g1, response_text, r)
            ELSE bad_outcome(g1, response_text)
      g3 == check_game_end(g2)
  IN IF g3.ended THEN g3 ELSE [g3 EXCEPT !.choices_made = @ + 1]

\* u is the draw of random.choices, r the draw of random.random()
update_game_state(gs, response_text, u, r) ==
  LET g1 == consume_food(gs)
      outcome == draw_outcome(g1.mode, u)
      g2 == IF outcome = "good" THEN good_outcome(g1, response_text, r)
            ELSE bad_outcome(g1, response_text)
      g3 == check_game_end(g2)
  IN [g3 EXCEPT !.choices_made = @ + 1]

----------------------------------------------------------------------------
(* main, lines 181-296 *)

\* st.sidebar.progress(health / 100) raises unless the value is in [0.0, 1.0]
display_game_state(gs) == gs.health >= 0 /\ gs.health <= 100

\* the restart without clear(): the keys are all present and nothing is reset
restart_no_clear(ss, clicked) ==
  IF clicked THEN initialize_session_state(ss) ELSE ss

\* lines 190-193 and 268-270: st.session_state.clear(); initialize_session_state()
restart(ss, clicked) ==
  IF clicked THEN initialize_session_state(EmptySession) ELSE ss

\* lines 195-200
language_selection(ss, widget) ==
  LET s1 == IF widget = "english" THEN [ss EXCEPT !.language = "English"] ELSE ss
  IN IF widget = "chinese" THEN [s1 EXCEPT !.language = "Chinese"] ELSE s1

\* lines 229-238: the three difficulty buttons
mode_selection(ss, widget) ==
  LET s1 == IF widget = "easy_mode"
            THEN [ss EXCEPT !.game_state.mode = "Easy"] ELSE ss
      s2 == IF widget = "hard_mode"
            THEN [s1 EXCEPT !.game_state.mode = "Hard"] ELSE s1
  IN IF widget = "nightmare_mode"
     THEN [s2 EXCEPT !.game_state.mode = "Nightmare"] ELSE s2

\* the game-over block restarting without waiting for its button
game_over_auto(ss, widget) == restart(ss, TRUE)

\* lines 263-271, reached when ended: the restart button under the final message
game_over(ss, widget) == restart(ss, widget = "restart_game")

\* lines 241-252: the introduction message opens an empty history
introduction(ss) ==
  IF ss.conversation_history = <<>>
  THEN [ss EXCEPT !.conversation_history = Append(@, "model"),
                  !.messages = Append(@, "model")]
  ELSE ss

\* lines 276-292: one turn; the histories keep the role of each message
process_input(ss, response, u, r) ==
  LET s1 == [ss EXCEPT !.conversation_history = Append(@, "user"),
                       !.messages = Append(@, "user")]
      s2 == [s1 EXCEPT !.game_state = update_game_state(@, response, u, r)]
  IN [s2 EXCEPT !.conversation_history = Append(@, "model"),
                !.messages = Append(@, "model")]

\* main without the game-over check of lines 263-271
main_no_game_over_check(ss, widget, response, u, r) ==
  LET s1 == initialize_session_state(ss)
      s2 == restart(s1, widget = "restart_sidebar")
      s3 == language_selection(s2, widget)
  IN IF s3.game_state.mode = None
     THEN [session_state |-> mode_selection(s3, widget),
           path |-> "mode_selection"]
     ELSE LET s4 == introduction(s3)
          IN IF ~display_game_state(s4.game_state)
             THEN [session_state |-> s4, path |-> "display_error"]
             ELSE IF widget = "user_input"
             THEN [session_state |-> process_input(s4, response, u, r),
                   path |-> "turn"]
             ELSE [session_state |-> s4, path |-> "awaiting_input"]

\* main without the return of line 239: the run goes on after the mode buttons
main_no_return(ss, widget, response, u, r) ==
  LET s1 == initialize_session_state(ss)
      s2 == restart(s1, widget = "restart_sidebar")
      s3 == language_selection(s2, widget)
      s4 == introduction(IF s3.game_state.mode = None
                         THEN mode_selection(s3, widget) ELSE s3)
  IN IF ~display_game_state(s4.game_state)
     THEN [session_state |-> s4, path |-> "display_error"]
     ELSE IF s4.game_state.ended
     THEN [session_state |-> game_over(s4, widget), path |-> "game_over"]
     ELSE IF widget = "user_input"
     THEN [session_state |-> process_input(s4, response, u, r),
           path |-> "turn"]
     ELSE [session_state |-> s4, path |-> "awaiting_input"]

\* One run of the script, triggered by `widget` (the widget the user operated).
\* response, u and r are the story text and the two random draws that a turn
\* of this run would use.  The result is the session state the run leaves and
\* the place where the run stopped.
main(ss, widget, response, u, r) ==
  LET s1 == initialize_session_state(ss)
      s2 == restart(s1, widget = "restart_sidebar")
      s3 == language_selection(s2, widget)
  IN IF s3.game_state.mode = None
     THEN [session_state |-> mode_selection(s3, widget),
           path |-> "mode_selection"]
     ELSE LET s4 == introduction(s3)
          IN IF ~display_game_state(s4.game_state)
             THEN [session_state |-> s4, path |-> "display_error"]
             ELSE IF s4.game_state.ended
             THEN [session_state |-> game_over(s4, widget),
                   path |-> "game_over"]
             ELSE IF widget = "user_input"
             THEN [session_state |-> process_input(s4, response, u, r),
                   path |-> "turn"]
             ELSE [session_state |-> s4, path |-> "awaiting_input"]

----------------------------------------------------------------------------
(* The user's interactions *)

ModeButtons == {"easy_mode", "hard_mode", "nightmare_mode"}

\* the widgets the last run rendered, i.e. those the user can operate now
Rendered(widget) ==
  \/ widget \in {"restart_sidebar", "english", "chinese"}
  \/ widget \in ModeButtons /\ last_run.path = "mode_selection"
  \/ widget = "restart_game" /\ last_run.path = "game_over"
  \/ widget = "user_input" /\ last_run.path \in {"awaiting_input", "turn"}

Rerun(widget, response, u, r) ==
  /\ Rendered(widget)
  /\ LET run == main(session_state, widget, response, u, r)
     IN /\ run.session_state.game_state.choices_made <= MaxChoices
        /\ run.session_state.game_state.food <= MaxFood
        /\ session_state' = run.session_state
        /\ last_run' = [widget |-> widget, path |-> run.path]

\* the state after the first run of the script, which no widget triggered
Init ==
  LET run == main(EmptySession, "none", FallbackText, 0, 0)
  IN /\ session_state = run.session_state
     /\ last_run = [widget |-> "none", path |-> run.path]

ClickRestartSidebar == Rerun("restart_sidebar", FallbackText, 0, 0)

ClickEnglish == Rerun("english", FallbackText, 0, 0)

ClickChinese == Rerun("chinese", FallbackText, 0, 0)

ClickMode(button) == Rerun(button, FallbackText, 0, 0)

ClickRestartGame == Rerun("restart_game", FallbackText, 0, 0)

SubmitInput(response, u, r) == Rerun("user_input", response, u, r)

Next ==
  \/ ClickRestartSidebar
  \/ ClickEnglish
  \/ ClickChinese
  \/ \E button \in ModeButtons : ClickMode(button)
  \/ ClickRestartGame
  \/ \E response \in generate_story_response, u \in RandomDraws, r \in RandomDraws :
       SubmitInput(response, u, r)

Spec == Init /\ [][Next]_vars

----------------------------------------------------------------------------
(* Shorthands for the properties *)

game_state == session_state.game_state

TypeOK ==
  /\ DOMAIN session_state = {"conversation_history", "messages", "game_state", "language"}
  /\ game_state.mode \in {None, "Easy", "Hard", "Nightmare"}
  /\ game_state.food \in 0..MaxFood
  /\ game_state.choices_made \in 0..MaxChoices
  /\ session_state.language \in {"English", "Chinese"}

\* a run that restarts the game: one of the two restart buttons was operated
RestartStep == last_run'.widget \in {"restart_sidebar", "restart_game"}

\* the run of main() that an input submitted now would make
SubmitRun(response, u, r) == main(session_state, "user_input", response, u, r)

\* the chat box is on screen and an input submitted now is processed as a turn
TurnEnabled ==
  /\ Rendered("user_input")
  /\ SubmitRun(FallbackText, 0, 0).path = "turn"

\* game_state after the turn that an input submitted now would take
AfterTurn(response, u, r) == SubmitRun(response, u, r).session_state.game_state

Max(a, b) == IF a > b THEN a ELSE b

\* C1: after every turn health is within [0,100]
C1_HealthInRange == game_state.health >= 0 /\ game_state.health <= 100

\* C2: once ended is true, no user action other than a restart changes health,
\* food or success; an input submitted through the chat box left by the run
\* that ended the game is a no-op
C2_NoChangeAfterEnd ==
  [][game_state.ended =>
       \/ RestartStep
       \/ /\ game_state'.health = game_state.health
          /\ game_state'.food = game_state.food
          /\ game_state'.success = game_state.success]_vars

\* an input was submitted after the game ended, and the run stopped at the
\* game-over check
C2_Witness ==
  /\ game_state.ended
  /\ last_run = [widget |-> "user_input", path |-> "game_over"]

\* C3: between turns, ended is true iff success is true or health <= 0
C3_EndedIff ==
  game_state.ended <=> (game_state.success \/ game_state.health <= 0)

\* a Hard game ended by starvation at health 0
C3_Witness ==
  /\ game_state.mode = "Hard"
  /\ game_state.food = 0
  /\ game_state.health = 0
  /\ ~game_state.success
  /\ game_state.ended
  /\ last_run.path = "turn"

\* C4: choices_made increases by exactly 1 on every turn, the terminal turn
\* included; a restart sets it to 0 and nothing else changes it
C4_ChoicesStep ==
  [][IF last_run'.path = "turn"
     THEN game_state'.choices_made = game_state.choices_made + 1
     ELSE IF RestartStep
     THEN game_state'.choices_made = 0
     ELSE game_state'.choices_made = game_state.choices_made]_vars

\* the turn that ended the game was counted
C4_Witness ==
  /\ game_state.ended
  /\ last_run.path = "turn"
  /\ game_state.choices_made = 8

\* C5: no turn is processed while mode is None, a turn does not change the
\* mode, and a mode that is set changes only by a restart (back to None)
C5_ModeSetOnce ==
  [][/\ last_run'.path = "turn" =>
          game_state.mode # None /\ game_state'.mode = game_state.mode
     /\ game_state.mode # None /\ game_state'.mode # game_state.mode =>
          RestartStep /\ game_state'.mode = None]_vars

\* a difficulty button left on screen was operated after the mode was set to
\* another difficulty, and the mode stayed
C5_Witness ==
  /\ last_run = [widget |-> "hard_mode", path |-> "awaiting_input"]
  /\ game_state.mode = "Easy"

\* C6: ended and success, once true, stay true until a restart
C6_Monotonic ==
  [][/\ game_state.ended => game_state'.ended \/ RestartStep
     /\ game_state.success => game_state'.success \/ RestartStep]_vars

\* a run that was not a restart started and finished in an ended game
C6_Witness ==
  /\ game_state.ended
  /\ game_state.success
  /\ last_run = [widget |-> "chinese", path |-> "game_over"]

\* the texts of the model that contain "restore health"
HealingTexts == {TextRestore, TextSuccessRestore}

\* the texts of the model that contain "lose health" or "fatal event"
DamageTexts == {TextLose, TextFatal, TextLoseFatal}

\* the food-discovery draw of a turn succeeds: the outcome is good and the
\* second draw is below the mode's food chance
FoodFound(u, r) ==
  /\ draw_outcome(game_state.mode, u) = "good"
  /\ r < food_chance(game_state.mode)

\* C7 as stated: on every turn whose text has no healing phrase, food goes
\* from f to max(0, f-1), and health decreases by 10 when food was exhausted
C7_Original ==
  TurnEnabled =>
    \A response \in generate_story_response \ HealingTexts,
       u \in RandomDraws, r \in RandomDraws :
      LET after == AfterTurn(response, u, r)
      IN /\ after.food = Max(0, game_state.food - 1)
         /\ game_state.food = 0 => after.health = game_state.health - 10

\* C7 amended: on every turn that finds no food, food goes from f to
\* max(0, f-1) (so N such turns in a row take F to max(0, F-N)); a turn taken
\* with food exhausted whose text has no healing and no damage phrase
\* decreases health by exactly 10
C7_DrainWithoutFind ==
  TurnEnabled =>
    \A response \in generate_story_response,
       u \in RandomDraws, r \in RandomDraws :
      LET after == AfterTurn(response, u, r)
      IN /\ ~FoodFound(u, r) => after.food = Max(0, game_state.food - 1)
         /\ /\ game_state.food = 0
            /\ response \notin HealingTexts \cup DamageTexts
            => after.health = game_state.health - 10

\* six turns without a find: five ate the initial food, the sixth starved
C7_Witness ==
  /\ game_state.choices_made = 6
  /\ game_state.food = 0
  /\ game_state.health = 90
  /\ last_run.path = "turn"

\* C8: a turn with Good outcome whose text contains "move closer to success"
\* in any letter case ends with success and ended both true, whatever food
\* and health are
C8_SuccessEndsGame ==
  TurnEnabled =>
    \A response \in {TextSuccess, TextSuccessRestore},
       u \in RandomDraws, r \in RandomDraws :
      draw_outcome(game_state.mode, u) = "good" =>
        LET after == AfterTurn(response, u, r)
        IN after.success /\ after.ended

\* a game won on the turn whose starvation step took health to 0
C8_Witness ==
  /\ game_state.success
  /\ game_state.ended
  /\ game_state.health <= 0
  /\ game_state.food = 0
  /\ last_run.path = "turn"

\* C9: a turn with Bad outcome whose text contains "fatal event", taken with
\* food 0, health <= 10 and success false, ends with health exactly 0, ended
\* true and success false
C9_FatalEvent ==
  /\ TurnEnabled
  /\ game_state.food = 0
  /\ game_state.health <= 10
  /\ ~game_state.success
  => \A response \in {TextFatal, TextLoseFatal},
        u \in RandomDraws, r \in RandomDraws :
       draw_outcome(game_state.mode, u) = "bad" =>
         LET after == AfterTurn(response, u, r)
         IN after.health = 0 /\ after.ended /\ ~after.success

\* the state the scenario of C10 starts from: Easy, food 5, health 100
C10_Scenario ==
  /\ TurnEnabled
  /\ game_state.mode = "Easy"
  /\ game_state.food = 5
  /\ game_state.health = 100

\* C10 as stated: from the scenario's state, a turn with Good outcome and the
\* text "you restore health here" leaves health at 100 and food at 4
C10_Original ==
  C10_Scenario =>
    \A u \in RandomDraws, r \in RandomDraws :
      draw_outcome("Easy", u) = "good" =>
        LET after == AfterTurn(TextRestore, u, r)
        IN after.health = 100 /\ after.food = 4

\* C10 amended: that turn leaves health at 100, and food at 4 when the
\* food-discovery draw fails and at 7 when it succeeds
C10_RestoreAtFull ==
  C10_Scenario =>
    \A u \in RandomDraws, r \in RandomDraws :
      draw_outcome("Easy", u) = "good" =>
        LET after == AfterTurn(TextRestore, u, r)
        IN /\ after.health = 100
           /\ after.food = IF r < 80 THEN 7 ELSE 4

\* the first turn of an Easy game, after which health is full and food is 4
C10_Witness ==
  /\ game_state.mode = "Easy"
  /\ game_state.choices_made = 1
  /\ game_state.health = 100
  /\ game_state.food = 4
  /\ last_run.path = "turn"

\* C11: in Nightmare mode a turn never raises health, whatever the outcome,
\* the draws and the text are, and it still eats one unit of food when there
\* is any (before a find, if there is one, adds 3)
C11_NightmareNoHealing ==
  TurnEnabled /\ game_state.mode = "Nightmare" =>
    \A response \in generate_story_response,
       u \in RandomDraws, r \in RandomDraws :
      LET after == AfterTurn(response, u, r)
      IN /\ after.health <= game_state.health
         /\ after.food = (IF game_state.food > 0 THEN game_state.food - 1 ELSE 0)
                         + (IF FoodFound(u, r) THEN 3 ELSE 0)

\* a wounded Nightmare player ate food and stayed wounded
C11_Witness ==
  /\ game_state.mode = "Nightmare"
  /\ game_state.choices_made = 2
  /\ game_state.food = 3
  /\ game_state.health = 90
  /\ last_run.path = "turn"

\* the run of main() that operating a difficulty button now would make
ModeRun(button) == main(session_state, button, FallbackText, 0, 0)

\* C12 as stated: a turn submitted while the game is Ended, and a difficulty
\* button operated after the mode is set, make the run fail with an error
C12_Original ==
  /\ Rendered("user_input") /\ game_state.ended =>
       SubmitRun(FallbackText, 0, 0).path = "display_error"
  /\ \A button \in ModeButtons :
       Rendered(button) /\ game_state.mode # None =>
         ModeRun(button).path = "display_error"

\* C12 amended: those calls are ignored without an error of their own: the
\* run leaves game_state as it was, and it fails only at the health bar, when
\* health is negative; while the mode is unset the chat box is not on screen,
\* so no turn can be submitted
C12_SilentlyIgnored ==
  /\ game_state.mode = None => ~Rendered("user_input")
  /\ Rendered("user_input") /\ game_state.ended =>
       LET run == SubmitRun(FallbackText, 0, 0)
       IN /\ run.session_state.game_state = game_state
          /\ run.path = IF game_state.health < 0 THEN "display_error"
                        ELSE "game_over"
  /\ \A button \in ModeButtons :
       Rendered(button) /\ game_state.mode # None =>
         LET run == ModeRun(button)
         IN /\ run.session_state.game_state = game_state
            /\ run.path = "awaiting_input"

\* an input was submitted in a lost game and the run showed the final screen
C12_Witness ==
  /\ game_state.ended
  /\ ~game_state.success
  /\ game_state.health = 0
  /\ last_run = [widget |-> "user_input", path |-> "game_over"]

\* every widget of the page
Widgets ==
  {"restart_sidebar", "english", "chinese", "restart_game", "user_input"}
    \cup ModeButtons

\* C13: a restart, from whatever state, leaves the defaults health 100,
\* food 5, choices_made 0, success and ended false and mode unset, and the
\* run that follows it, whatever widget triggers it, stops at mode selection
C13_RestartToDefaults ==
  [][RestartStep =>
       /\ game_state' = [health |-> 100, food |-> 5, choices_made |-> 0,
                         success |-> FALSE, mode |-> None, ended |-> FALSE]
       /\ \A widget \in Widgets :
            main(session_state', widget, FallbackText, 0, 0).path
              = "mode_selection"]_vars

\* the button under the final message restarted a finished game
C13_Witness ==
  /\ last_run = [widget |-> "restart_game", path |-> "game_over"]
  /\ game_state.mode = None
  /\ game_state.health = 100
  /\ game_state.food = 5
  /\ game_state.choices_made = 0
  /\ ~game_state.ended

\* C14: an input submitted while the game is in progress is processed as one
\* turn also when generation fails: the fallback text contains no trigger
\* phrase, the turn is counted once, one user and one model message are
\* recorded, success stays false, and health changes only by the food step
\* (+10 capped at 100 with food outside Nightmare, -10 without food)
C14_FallbackTurn ==
  /\ \A phrase \in TriggerPhrases : ~ResponseMatches[FallbackText][phrase]
  /\ Rendered("user_input") /\ ~game_state.ended =>
       \A u \in RandomDraws, r \in RandomDraws :
         LET run == SubmitRun(FallbackText, u, r)
             after == run.session_state.game_state
         IN /\ run.path = "turn"
            /\ after.choices_made = game_state.choices_made + 1
            /\ Len(run.session_state.conversation_history)
                 = Len(session_state.conversation_history) + 2
            /\ ~after.success
            /\ after.health =
                 IF game_state.food > 0
                 THEN IF game_state.mode = "Nightmare" THEN game_state.health
                      ELSE Min(100, game_state.health + 10)
                 ELSE game_state.health - 10

\* a Hard game after five turns that ate the food and a sixth that starved,
\* none of which touched health through an outcome rule
C14_Witness ==
  /\ game_state.mode = "Hard"
  /\ game_state.choices_made = 6
  /\ game_state.food = 0
  /\ game_state.health = 90
  /\ ~game_state.ended
  /\ last_run.path = "turn"

\* C15: food is never negative
C15_FoodNonNegative == game_state.food >= 0

\* a turn was taken with no food left, and food stayed at 0
C15_Witness ==
  /\ game_state.food = 0
  /\ game_state.choices_made = 7
  /\ ~game_state.ended
  /\ last_run.path = "turn"

\* C16: over a turn food changes by -1, 0, +2 or +3; it never increases on a
\* Bad outcome, and it never increases when update_game_state runs with the
\* mode unset
C16_FoodDiscovery ==
  TurnEnabled =>
    \A response \in generate_story_response,
       u \in RandomDraws, r \in RandomDraws :
      LET change == AfterTurn(response, u, r).food - game_state.food
          unset == update_game_state([game_state EXCEPT !.mode = None],
                                     response, u, r)
      IN /\ change \in {-1, 0, 2, 3}
         /\ draw_outcome(game_state.mode, u) = "bad" => change <= 0
         /\ unset.food <= game_state.food

\* food was found on the turn that starved: from 0 to 3
C16_Witness ==
  /\ game_state.choices_made = 6
  /\ game_state.food = 3
  /\ game_state.health = 90
  /\ last_run.path = "turn"

\* health after the food step of a turn taken now, written out from the rules
AfterFoodStep ==
  IF game_state.food > 0
  THEN IF game_state.mode = "Nightmare" THEN game_state.health
       ELSE IF game_state.health + 10 > 100 THEN 100
       ELSE game_state.health + 10
  ELSE game_state.health - 10

\* C17: at most one text rule fires per turn: with both good-branch phrases
\* and a Good outcome success is set and health gets no +20; with both
\* bad-branch phrases and a Bad outcome health loses 10 and is not set to 0
C17_OneRulePerTurn ==
  TurnEnabled =>
    \A u \in RandomDraws, r \in RandomDraws :
      IF draw_outcome(game_state.mode, u) = "good"
      THEN LET after == AfterTurn(TextSuccessRestore, u, r)
           IN after.success /\ after.health = AfterFoodStep
      ELSE AfterTurn(TextLoseFatal, u, r).health = AfterFoodStep - 10

\* an Easy game won below full health by a text that also said "restore health"
C17_Witness ==
  /\ game_state.mode = "Easy"
  /\ game_state.success
  /\ game_state.ended
  /\ game_state.health = 80
  /\ game_state.choices_made = 6
  /\ last_run.path = "turn"

\* C18: the fatal rule tests health after the food step: from health 20, a
\* Bad turn with "fatal event" (and no "lose health") ends at health 0 with
\* the game over when food is 0, and in Easy or Hard mode with food left it
\* leaves health above 10 and the game going
C18_FatalAfterFoodStep ==
  TurnEnabled /\ game_state.health = 20 =>
    \A u \in RandomDraws, r \in RandomDraws :
      draw_outcome(game_state.mode, u) = "bad" =>
        LET after == AfterTurn(TextFatal, u, r)
        IN /\ game_state.food = 0 => after.health = 0 /\ after.ended
           /\ game_state.food > 0 /\ game_state.mode \in {"Easy", "Hard"} =>
                after.health > 10 /\ ~after.ended

\* a Hard player at health 20 with food left took a turn and is at 30
C18_Witness ==
  /\ game_state.mode = "Hard"
  /\ game_state.choices_made = 10
  /\ game_state.health = 30
  /\ game_state.food = 2
  /\ ~game_state.ended
  /\ last_run.path = "turn"

\* C19: health is a multiple of 10 between -10 and 100, and a turn is only
\* taken from health >= 10
C19_HealthGrid ==
  /\ game_state.health % 10 = 0
  /\ game_state.health >= -10
  /\ game_state.health <= 100
  /\ TurnEnabled => game_state.health >= 10

\* the lowest value: a starving player at health 10 lost health once more
C19_Witness ==
  /\ game_state.health = -10
  /\ game_state.ended
  /\ last_run.path = "turn"

====
